---------------------------- MODULE Spec2Model ----------------------------
(***************************************************************************)
(* A model of the XChaCha stream cipher reference model                    *)
(* (src/model/python/xchacha.py) and of its callers, and of the I2C        *)
(* command layer of the host programs (src/sw/trng_extract.py,             *)
(* src/sw/rosc_tester.py).                                                 *)
(*                                                                         *)
(* Python integers are unbounded, and the code relies on that (v << 16 is  *)
(* a 48 bit value before it is masked, the block counter is never masked). *)
(* TLC's integers are 32 bit signed, so a Python integer n >= 0 is modelled *)
(* as the sequence of its base 2^16 digits ("limbs"), least significant    *)
(* first, without leading zero limbs: 0 is << >>, 0x61707865 is            *)
(* <<30821, 24944>>, 2^32 is <<0, 0, 1>>.  A Python list of bytes (key,    *)
(* iv, data_in, data_out) is a sequence of naturals; the lists state and x, *)
(* which always hold 16 words, are functions on 0..15.                     *)
(***************************************************************************)
EXTENDS Integers, Sequences, FiniteSets, TLC

---------------------------------------------------------------------------
(* Python integer arithmetic on limb sequences.                            *)
(*                                                                         *)
(* TLC may evaluate a LET definition or an operator's argument again at    *)
(* each of its uses.  A value that is used more than once is therefore     *)
(* bound as the element of a singleton set, {e(v) : v \in {a}}, which has  *)
(* it computed once; Only takes the result out of the set.                 *)

Only(S) == CHOOSE v \in S : TRUE

Base == 2^16

Min(a, b) == IF a < b THEN a ELSE b

Limb(s, i) == IF i <= Len(s) THEN s[i] ELSE 0

MaxLen(a, b) == IF Len(a) > Len(b) THEN Len(a) ELSE Len(b)

\* The number of limbs of s up to its last one that is not zero.
Top(s) ==
    IF \A i \in 1..Len(s) : s[i] = 0 THEN 0
    ELSE CHOOSE i \in 1..Len(s) : s[i] # 0 /\ \A j \in (i + 1)..Len(s) : s[j] = 0

\* s without its leading zero limbs.
Norm(s) == Only({SubSeq(v, 1, Top(v)) : v \in {s}})

\* The Python integer of a natural below 2^31.
FromInt(n) == Norm(<<n % Base, n \div Base>>)

\* The natural of a Python integer below 2^16 (a byte, a small count).
ToInt(p) == Limb(p, 1)

\* The 32 bit literal 0xHHHHLLLL.
W(hi, lo) == Norm(<<lo, hi>>)

\* The carry out of limb i of a + b.
RECURSIVE Carry(_, _, _)
Carry(a, b, i) ==
    IF i = 0 THEN 0 ELSE (Limb(a, i) + Limb(b, i) + Carry(a, b, i - 1)) \div Base

AddLimbs(a, b) ==
    [i \in 1..(MaxLen(a, b) + 1) |->
        (Limb(a, i) + Limb(b, i) + Carry(a, b, i - 1)) % Base]

\* a + b
Add(a, b) == Norm(Only({AddLimbs(va, vb) : va \in {a}, vb \in {b}}))

\* The carry out of limb i of a * m, for m <= 2^15.
RECURSIVE MulCarry(_, _, _)
MulCarry(a, m, i) ==
    IF i = 0 THEN 0 ELSE (Limb(a, i) * m + MulCarry(a, m, i - 1)) \div Base

MulLimbs(a, m) ==
    [i \in 1..(Len(a) + 1) |-> (Limb(a, i) * m + MulCarry(a, m, i - 1)) % Base]

\* a << n
Shl(a, n) ==
    Norm(Only({[i \in 1..(n \div 16) |-> 0] \o MulLimbs(va, 2^(n % 16)) : va \in {a}}))

ShrLimbs(a, q, r) ==
    [i \in 1..(IF q >= Len(a) THEN 0 ELSE Len(a) - q) |->
        (a[q + i] \div 2^r) + (Limb(a, q + i + 1) % 2^r) * 2^(16 - r)]

\* a >> n
Shr(a, n) == Norm(Only({ShrLimbs(va, n \div 16, n % 16) : va \in {a}}))

\* Bitwise operations on two limbs.  The bits of a pair of hex digits are
\* combined one by one, once, into a table; a limb is four hex digits.
RECURSIVE BitsAnd(_, _)
BitsAnd(a, b) ==
    IF a = 0 \/ b = 0 THEN 0
    ELSE (a % 2) * (b % 2) + 2 * BitsAnd(a \div 2, b \div 2)

RECURSIVE BitsXor(_, _)
BitsXor(a, b) ==
    IF a = 0 THEN b
    ELSE IF b = 0 THEN a
    ELSE ((a + b) % 2) + 2 * BitsXor(a \div 2, b \div 2)

AndTable == [a \in 0..15 |-> [b \in 0..15 |-> BitsAnd(a, b)]]
XorTable == [a \in 0..15 |-> [b \in 0..15 |-> BitsXor(a, b)]]

And16(a, b) ==
    IF a = 0 \/ b = 0 THEN 0
    ELSE AndTable[a % 16][b % 16]
         + 16 * AndTable[(a \div 16) % 16][(b \div 16) % 16]
         + 256 * AndTable[(a \div 256) % 16][(b \div 256) % 16]
         + 4096 * AndTable[a \div 4096][b \div 4096]

Xor16(a, b) ==
    IF a = 0 THEN b
    ELSE IF b = 0 THEN a
    ELSE XorTable[a % 16][b % 16]
         + 16 * XorTable[(a \div 16) % 16][(b \div 16) % 16]
         + 256 * XorTable[(a \div 256) % 16][(b \div 256) % 16]
         + 4096 * XorTable[a \div 4096][b \div 4096]

AndLimbs(a, b) == [i \in 1..MaxLen(a, b) |-> And16(Limb(a, i), Limb(b, i))]
XorLimbs(a, b) == [i \in 1..MaxLen(a, b) |-> Xor16(Limb(a, i), Limb(b, i))]

\* a & b
And(a, b) == Norm(Only({AndLimbs(va, vb) : va \in {a}, vb \in {b}}))

\* a ^ b
Xor(a, b) == Norm(Only({XorLimbs(va, vb) : va \in {a}, vb \in {b}}))

\* a < b, from limb i down.
RECURSIVE LessFrom(_, _, _)
LessFrom(a, b, i) ==
    IF i = 0 THEN FALSE
    ELSE IF Limb(a, i) # Limb(b, i) THEN Limb(a, i) < Limb(b, i)
    ELSE LessFrom(a, b, i - 1)

Less(a, b) == \E va \in {a}, vb \in {b} : LessFrom(va, vb, MaxLen(va, vb))

Mask32 == W(65535, 65535)        \* 0xffffffff

\* a % 0xffffffff.  With a = q * 2^32 + r and 2^32 = 1 (mod 2^32 - 1),
\* a = q + r (mod 2^32 - 1), and q + r < a when q > 0.
RECURSIVE ModMask32(_)
ModMask32(a) ==
    Only({IF Less(v, Mask32) THEN v
          ELSE IF v = Mask32 THEN << >>
          ELSE ModMask32(Add(Shr(v, 32), And(v, Mask32))) : v \in {a}})

---------------------------------------------------------------------------
(* Constants and methods of xchacha.py.                                    *)

TAU   == <<W(24944, 30821), W(12576, 25710), W(31074, 11574), W(27424, 25972)>>
SIGMA == <<W(24944, 30821), W(13088, 25710), W(31074, 11570), W(27424, 25972)>>

\* Python's list[a:b] and list[i] on a sequence; the lists are 0-based.
Slice(l, a, b) ==
    IF a >= Min(b, Len(l)) THEN << >> ELSE SubSeq(l, a + 1, Min(b, Len(l)))

At(l, i) == l[i + 1]

\* _b2w(bytes) raises IndexError at bytes[3], or at an earlier subscript,
\* when bytes holds fewer than four elements.
b2wRaises(bytes) == Len(bytes) < 4

\* A _b2w that takes the first byte as the most significant one.
b2wBigEndian(bytes) ==
    And(Add(Add(FromInt(At(bytes, 3)), Shl(FromInt(At(bytes, 2)), 8)),
            Add(Shl(FromInt(At(bytes, 1)), 16), Shl(FromInt(At(bytes, 0)), 24))),
        Mask32)

\* _b2w(bytes)
b2w(bytes) ==
    And(Add(Add(FromInt(At(bytes, 0)), Shl(FromInt(At(bytes, 1)), 8)),
            Add(Shl(FromInt(At(bytes, 2)), 16), Shl(FromInt(At(bytes, 3)), 24))),
        Mask32)

\* A _w2b that returns the most significant byte first.
w2bBigEndian(word) ==
    Only({<< ToInt(Shr(And(w, W(65280, 0)), 24)),
             ToInt(Shr(And(w, W(255, 0)), 16)),
             ToInt(Shr(And(w, W(0, 65280)), 8)),
             ToInt(And(w, W(0, 255))) >> : w \in {word}})

\* _w2b(word): the four bytes of a word, least significant first.
w2b(word) ==
    Only({<< ToInt(And(w, W(0, 255))),
             ToInt(Shr(And(w, W(0, 65280)), 8)),
             ToInt(Shr(And(w, W(255, 0)), 16)),
             ToInt(Shr(And(w, W(65280, 0)), 24)) >> : w \in {word}})

\* A rotation expression that drops the bits shifted out, (v << n) & 0xffffffff.
ShiftExpr(v, n) == Only({And(Shl(w, n), Mask32) : w \in {v}})

\* The rotation expression ((v << n) + (v >> (32 - n))) & 0xffffffff.
RotExpr(v, n) == Only({And(Add(Shl(w, n), Shr(w, 32 - n)), Mask32) : w \in {v}})

\* The arithmetic of _quarterround on the words a, b, c, d: the statements
\* a0 = ... to b3 = ..., in their order; the result is
\* <<a_prim, b_prim, c_prim, d_prim>>.
QuarterWords(a, b, c, d) ==
    Only({ Only({ Only({ Only({ Only({ Only({ Only({ Only({
        <<a1, b3, c1, d3>>
        : b3 \in {RotExpr(Xor(b1, c1), 7)} })
        : c1 \in {And(Add(c0, d3), Mask32)} })
        : d3 \in {RotExpr(Xor(d1, a1), 8)} })
        : a1 \in {And(Add(a0, b1), Mask32)} })
        : b1 \in {RotExpr(Xor(b, c0), 12)} })
        : c0 \in {And(Add(c, d1), Mask32)} })
        : d1 \in {RotExpr(Xor(d, a0), 16)} })
        : a0 \in {And(Add(a, b), Mask32)} })

\* A _quarterround that also writes d_prim to the position after di.
quarterroundWide(x, ai, bi, ci, di) ==
    Only({ Only({ [[[[[v EXCEPT ![ai] = q[1]] EXCEPT ![bi] = q[2]]
                                 EXCEPT ![ci] = q[3]] EXCEPT ![di] = q[4]]
                                 EXCEPT ![(di + 1) % 16] = q[4]]
                  : q \in {QuarterWords(v[ai], v[bi], v[ci], v[di])} })
           : v \in {x} })

\* _quarterround(ai, bi, ci, di) on the working buffer x.
quarterround(x, ai, bi, ci, di) ==
    Only({ Only({ [[[[v EXCEPT ![ai] = q[1]] EXCEPT ![bi] = q[2]]
                                EXCEPT ![ci] = q[3]] EXCEPT ![di] = q[4]]
                  : q \in {QuarterWords(v[ai], v[bi], v[ci], v[di])} })
           : v \in {x} })

\* A _doubleround of the four column quarterrounds alone.
ColumnRound(x) ==
    quarterround(quarterround(quarterround(quarterround(x,
        0, 4,  8, 12),
        1, 5,  9, 13),
        2, 6, 10, 14),
        3, 7, 11, 15)

\* _doubleround(): four column quarterrounds, then four diagonal ones.
doubleround(x) ==
    quarterround(quarterround(quarterround(quarterround(
    quarterround(quarterround(quarterround(quarterround(x,
        0, 4,  8, 12),
        1, 5,  9, 13),
        2, 6, 10, 14),
        3, 7, 11, 15),
        0, 5, 10, 15),
        1, 6, 11, 12),
        2, 7,  8, 13),
        3, 4,  9, 14)

\* for i in range(n): self._doubleround()
RECURSIVE doublerounds(_, _)
doublerounds(x, n) ==
    IF n <= 0 THEN x ELSE Only({doublerounds(y, n - 1) : y \in {doubleround(x)}})

\* An _inc_counter that adds one to the low word twice.
IncCounterTwice(bc) == <<Add(bc[1], FromInt(2)), bc[2]>>

\* _inc_counter() on block_counter = <<low, high>>.  "1 & 0xffffffff" is
\* evaluated first (& binds weaker than +=), so each word grows by one and
\* is never masked.
inc_counter(bc) ==
    Only({ IF ModMask32(low) = << >>
           THEN <<low, Add(bc[2], And(FromInt(1), Mask32))>>
           ELSE <<low, bc[2]>>
           : low \in {Add(bc[1], And(FromInt(1), Mask32))} })

Zero16 == [i \in 0..15 |-> << >>]

---------------------------------------------------------------------------
(* The XChaCha object.  An instance is the record of its attributes; a     *)
(* method is an operator from the instance and the arguments to the        *)
(* instance it leaves, the exception it raises ("none" when it returns)    *)
(* and the value it returns.                                               *)

\* The attributes __init__ sets before it calls set_key_iv; block_counter
\* does not exist yet (the empty tuple).
NewObject(rounds, verbose) ==
    [state |-> Zero16, x |-> Zero16, rounds |-> rounds, verbose |-> verbose,
     block_counter |-> << >>]

\* Common state init for both key lengths (the tail of set_key_iv): the
\* assignments are made one by one, so an iv that is too short raises
\* IndexError with the earlier ones done.
IvWords(o, iv, msg) ==
    IF b2wRaises(Slice(iv, 0, 4))
    THEN [obj |-> o, exc |-> "IndexError", msg |-> msg]
    ELSE IF b2wRaises(Slice(iv, 4, 8))
    THEN [obj |-> [o EXCEPT !.state[14] = b2w(Slice(iv, 0, 4))],
          exc |-> "IndexError", msg |-> msg]
    ELSE [obj |-> [o EXCEPT !.state[14] = b2w(Slice(iv, 0, 4)),
                            !.state[15] = b2w(Slice(iv, 4, 8))],
          exc |-> "none", msg |-> msg]

\* A reset of block_counter that leaves state words 12 and 13 as they are.
ResetCounterOnly(o) == [o EXCEPT !.block_counter = << << >>, << >> >>]

ResetCounter(o) ==
    Only({ [o EXCEPT !.block_counter = bc, !.state[12] = bc[1], !.state[13] = bc[2]]
           : bc \in {<< << >>, << >> >>} })

set_iv(o, iv, msg) == Only({IvWords(o1, iv, msg) : o1 \in {ResetCounter(o)}})

\* A key layout that writes the key words and leaves the constants of words
\* 0-3 as they are.
KeyLayoutKeysOnly(state, c, kw) ==
    [i \in 0..15 |-> IF i >= 4 /\ i < 12 THEN kw[i - 3] ELSE state[i]]

\* state[0..11] := the constants c and the eight key words kw.
KeyLayout(state, c, kw) ==
    [i \in 0..15 |-> IF i < 4 THEN c[i + 1]
                     ELSE IF i < 12 THEN kw[i - 3]
                     ELSE state[i]]

\* keyword0 .. keyword7 of a key.
KeyWord(key, j) == b2w(Slice(key, 4 * j, 4 * j + 4))

\* set_key_iv(key, iv) on the instance o.  msg is the line it prints for a
\* key length it does not support.
SetKeyIvOn(o, key, iv) ==
    IF \E j \in 0..3 : b2wRaises(Slice(key, 4 * j, 4 * j + 4))
    THEN [obj |-> o, exc |-> "IndexError", msg |-> "none"]
    ELSE IF Len(key) = 16
    THEN set_iv([o EXCEPT !.state = KeyLayout(o.state, TAU,
                    Only({kw \o kw : kw \in {[j \in 1..4 |-> KeyWord(key, j - 1)]}}))],
                iv, "none")
    ELSE IF Len(key) = 32
    THEN set_iv([o EXCEPT !.state = KeyLayout(o.state, SIGMA,
                    [j \in 1..8 |-> KeyWord(key, j - 1)])],
                iv, "none")
    ELSE set_iv(o, iv, "Key length is not supported.")

set_key_iv(obj, key, iv) == Only({SetKeyIvOn(o, key, iv) : o \in {obj}})

\* XChaCha(key, iv, rounds, verbose): an exception of set_key_iv leaves the
\* caller without an instance.
init(key, iv, rounds, verbose) == set_key_iv(NewObject(rounds, verbose), key, iv)

\* A feed-forward that leaves every state word as it is.
KeepState(state, x) == state

\* A next() that returns the working buffer without adding the state to it.
NoFeedForward(state, x) == x

\* self.state = [((self.state[i] + self.x[i]) & 0xffffffff) for i in range(16)]
FeedForward(state, x) == [i \in 0..15 |-> And(Add(state[i], x[i]), Mask32)]

\* bytestate: the bytes of the first n state words.
RECURSIVE ByteState(_, _)
ByteState(state, n) ==
    IF n = 0 THEN << >> ELSE ByteState(state, n - 1) \o w2b(state[n - 1])

\* A combination of two bytes that is not its own inverse.
AddByte(a, b) == (a + b) % 256

\* data_in[i] ^ bytestate[i], of two bytes.
XorByte(a, b) == ToInt(Xor(FromInt(a), FromInt(b)))

\* data_out = [data_in[i] ^ bytestate[i] for i in range(64)]
DataOut(data_in, state) ==
    Only({[k \in 1..64 |-> XorByte(data_in[k], bytestate[k])]
          : bytestate \in {ByteState(state, 16)}})

\* A next() that runs the rounds on the buffer x as the last call left it.
NextOnStaleBuffer(o, data_in) ==
    Only({ Only({
        IF Len(data_in) < 64
        THEN [obj |-> [o EXCEPT !.x = x1, !.state = st],
              exc |-> "IndexError", out |-> << >>]
        ELSE [obj |-> [o EXCEPT !.x = x1, !.state = st,
                                !.block_counter = inc_counter(o.block_counter)],
              exc |-> "none", out |-> DataOut(data_in, st)]
        : st \in {FeedForward(o.state, x1)} })
        : x1 \in {doublerounds(o.x, o.rounds \div 2)} })

\* A next() that advances the counter before it reads data_in.
NextOnCountingFirst(o, data_in) ==
    Only({ Only({
        IF Len(data_in) < 64
        THEN [obj |-> [o EXCEPT !.x = x1, !.state = st,
                                !.block_counter = inc_counter(o.block_counter)],
              exc |-> "IndexError", out |-> << >>]
        ELSE [obj |-> [o EXCEPT !.x = x1, !.state = st,
                                !.block_counter = inc_counter(o.block_counter)],
              exc |-> "none", out |-> DataOut(data_in, st)]
        : st \in {FeedForward(o.state, x1)} })
        : x1 \in {doublerounds(o.state, o.rounds \div 2)} })

\* A next() that rounds the number of doublerounds up.
NextOnRoundingUp(o, data_in) ==
    Only({ Only({
        IF Len(data_in) < 64
        THEN [obj |-> [o EXCEPT !.x = x1, !.state = st],
              exc |-> "IndexError", out |-> << >>]
        ELSE [obj |-> [o EXCEPT !.x = x1, !.state = st,
                                !.block_counter = inc_counter(o.block_counter)],
              exc |-> "none", out |-> DataOut(data_in, st)]
        : st \in {FeedForward(o.state, x1)} })
        : x1 \in {doublerounds(o.state, (o.rounds + 1) \div 2)} })

\* A next() that derives the block from the state and leaves the state words
\* as they are.
NextOnKeepingState(o, data_in) ==
    Only({ Only({
        IF Len(data_in) < 64
        THEN [obj |-> [o EXCEPT !.x = x1],
              exc |-> "IndexError", out |-> << >>]
        ELSE [obj |-> [o EXCEPT !.x = x1,
                                !.block_counter = inc_counter(o.block_counter)],
              exc |-> "none", out |-> DataOut(data_in, st)]
        : st \in {FeedForward(o.state, x1)} })
        : x1 \in {doublerounds(o.state, o.rounds \div 2)} })

\* next(data_in) on the instance o.  data_in[i] is read for i in range(64)
\* after x and state have been assigned: a shorter list raises IndexError
\* there, before the counter is advanced; elements past the 64th are never
\* read.
NextOn(o, data_in) ==
    Only({ Only({
        IF Len(data_in) < 64
        THEN [obj |-> [o EXCEPT !.x = x1, !.state = st],
              exc |-> "IndexError", out |-> << >>]
        ELSE [obj |-> [o EXCEPT !.x = x1, !.state = st,
                                !.block_counter = inc_counter(o.block_counter)],
              exc |-> "none", out |-> DataOut(data_in, st)]
        : st \in {FeedForward(o.state, x1)} })
        : x1 \in {doublerounds(o.state, o.rounds \div 2)} })

next(obj, data_in) == Only({NextOn(o, d) : o \in {obj}, d \in {data_in}})

---------------------------------------------------------------------------
(* The callers' inputs.                                                    *)

\* Key16 and IvA are the key and iv of TC8-128-8 in main().  Key20 is longer
\* than a 128 bit key and no 256 bit key, Key8 is shorter than both; IvShort
\* holds fewer than the 8 bytes of an iv, IvLong more.
Key16 == <<196, 110, 193, 177, 140, 232, 168, 120, 114, 90, 55, 231, 128, 223, 183, 53>>
Key32 == [i \in 1..32 |-> (7 * i) % 256]
Key20 == [i \in 1..20 |-> 2 * i]
Key8  == [i \in 1..8 |-> i]
IvA   == <<26, 218, 49, 213, 207, 104, 130, 33>>
IvB   == <<0, 0, 0, 0, 0, 0, 0, 0>>
IvShort == <<1, 2, 3, 4, 5>>
IvLong == [i \in 1..12 |-> 16 * i]

\* The (key, iv) pairs a caller passes.
KeyIvs ==
    {<<Key16, IvA>>, <<Key32, IvB>>, <<Key20, IvA>>, <<Key8, IvB>>, <<Key16, IvShort>>,
     <<Key32, IvLong>>}

\* The (rounds, verbose) pairs a caller constructs an instance with; 8 is
\* the default of rounds.
Modes == {<<8, 0>>, <<2, 1>>}

Zero64 == [i \in 1..64 |-> 0]
Text64 == [i \in 1..64 |-> (3 * i + 65) % 256]
Short10 == [i \in 1..10 |-> i]
Long70 == [i \in 1..70 |-> (200 + i) % 256]
Blocks == {Zero64, Text64, Short10, Long70}

\* Calls made on one instance after its construction.
MaxCalls == 2

\* SpecCtr: the block counts below 2^32 - 1 that a run starts from, and the
\* blocks produced in a run.
CtrBelow == 40
MaxInc == 3

---------------------------------------------------------------------------
(* The state: one instance and its caller.                                 *)
(*   phase  "none" before XChaCha(...) is called, "live" once it returned, *)
(*          "raised" when it raised (the caller holds no instance);        *)
(*          "counting" in SpecCtr, "rounds" in SpecRound; one phase per    *)
(*          instance in SpecTwo                                            *)
(*   obj    the instance's attributes                                      *)
(*   pre    the attributes when the last call started                      *)
(*   last   the last call: its method, arguments, exception, result        *)
(*   cfg    the key and iv of the last set_key_iv that ran to its end,     *)
(*          whether the key length was one that is supported, and whether  *)
(*          a set_key_iv since then raised after it had assigned to state  *)
(*   hist   the next() calls since then: input, output, exception          *)
(*   calls  the number of calls made on the instance                       *)
(* SpecCtr follows block_counter alone, over the 2^32 boundary:            *)
(*   counter   block_counter, <<low, high>>                                *)
(*   produced  the number of blocks produced since the key was set         *)
VARIABLES phase, obj, pre, last, cfg, hist, calls, counter, produced

vars == <<phase, obj, pre, last, cfg, hist, calls, counter, produced>>

NoCall == [op |-> "none", key |-> << >>, iv |-> << >>, data |-> << >>,
           exc |-> "none", msg |-> "none", out |-> << >>]

NoCfg == [key |-> << >>, iv |-> << >>, supported |-> FALSE, torn |-> FALSE]

Init ==
    /\ phase = "none"
    /\ obj = NewObject(0, 0)
    /\ pre = NewObject(0, 0)
    /\ last = NoCall
    /\ cfg = NoCfg
    /\ hist = << >>
    /\ calls = 0
    /\ counter = << >>
    /\ produced = << >>

\* cipher = XChaCha(key, iv, rounds, verbose)
Construct(key, iv, rounds, verbose) ==
    /\ phase = "none"
    /\ \E r \in {init(key, iv, rounds, verbose)} :
           /\ phase' = IF r.exc = "none" THEN "live" ELSE "raised"
           /\ obj' = IF r.exc = "none" THEN r.obj ELSE obj
           /\ last' = [NoCall EXCEPT !.op = "init", !.key = key, !.iv = iv,
                                     !.exc = r.exc, !.msg = r.msg]
           /\ cfg' = IF r.exc = "none"
                     THEN [key |-> key, iv |-> iv, supported |-> r.msg = "none",
                           torn |-> FALSE]
                     ELSE cfg
    /\ pre' = NewObject(rounds, verbose)
    /\ UNCHANGED <<hist, calls, counter, produced>>

\* cipher.set_key_iv(key, iv)
SetKeyIv(key, iv) ==
    /\ phase = "live"
    /\ calls < MaxCalls
    /\ \E r \in {set_key_iv(obj, key, iv)} :
           /\ obj' = r.obj
           /\ last' = [NoCall EXCEPT !.op = "set_key_iv", !.key = key, !.iv = iv,
                                     !.exc = r.exc, !.msg = r.msg]
           /\ cfg' = IF r.exc = "none"
                     THEN [key |-> key, iv |-> iv, supported |-> r.msg = "none",
                           torn |-> FALSE]
                     ELSE [cfg EXCEPT !.torn = cfg.torn \/ r.obj # obj]
           /\ hist' = IF r.exc = "none" THEN << >> ELSE hist
    /\ pre' = obj
    /\ calls' = calls + 1
    /\ UNCHANGED <<phase, counter, produced>>

\* cipher.next(data_in)
NextBlock(data_in) ==
    /\ phase = "live"
    /\ calls < MaxCalls
    /\ \E r \in {next(obj, data_in)} :
           /\ obj' = r.obj
           /\ last' = [NoCall EXCEPT !.op = "next", !.data = data_in,
                                     !.exc = r.exc, !.out = r.out]
           /\ hist' = Append(hist, [in |-> data_in, out |-> r.out, exc |-> r.exc])
    /\ pre' = obj
    /\ calls' = calls + 1
    /\ UNCHANGED <<phase, cfg, counter, produced>>

Next ==
    \/ \E ki \in KeyIvs, m \in Modes : Construct(ki[1], ki[2], m[1], m[2])
    \/ \E ki \in KeyIvs : SetKeyIv(ki[1], ki[2])
    \/ \E data_in \in Blocks : NextBlock(data_in)

Spec == Init /\ [][Next]_vars

---------------------------------------------------------------------------
(* SpecCtr: the block counter on its own.  next() reads block_counter only  *)
(* in _inc_counter, once per block it returns, and _inc_counter reads       *)
(* nothing else; a run starts from the counter that n blocks leave, for n   *)
(* = 0 and for n up to CtrBelow below 2^32 - 1 (until then no block has     *)
(* made the low word a multiple of 0xffffffff, so the counter is [n, 0]).   *)

StartCounts == {<< >>} \cup {W(65535, 65535 - j) : j \in 1..CtrBelow}

InitCtr ==
    /\ phase = "counting"
    /\ obj = NewObject(0, 0)
    /\ pre = NewObject(0, 0)
    /\ last = NoCall
    /\ cfg = NoCfg
    /\ hist = << >>
    /\ calls = 0
    /\ produced \in StartCounts
    /\ counter = <<produced, << >> >>

\* The counter's part of a next() call that returns a block.
CountBlock ==
    /\ phase = "counting"
    /\ calls < MaxInc
    /\ counter' = inc_counter(counter)
    /\ produced' = Add(produced, FromInt(1))
    /\ calls' = calls + 1
    /\ UNCHANGED <<phase, obj, pre, last, cfg, hist>>

NextCtr == CountBlock

SpecCtr == InitCtr /\ [][NextCtr]_vars

---------------------------------------------------------------------------
(* SpecVec: instances constructed as the test cases of main() construct    *)
(* them (all zero key and iv, the round count given or left at its         *)
(* default), and with odd round counts, each fed blocks through next().    *)

\* rounds = 8 in the signature of __init__.
DefaultRounds == 8

KeyZero16 == [i \in 1..16 |-> 0]
KeyZero32 == [i \in 1..32 |-> 0]

\* expected1 of TC1-128-8 and of TC1-256-20.
Expected_TC1_128_8 ==
    << 226, 138,  95, 164, 166, 127, 140,  93,
       239, 237,  62, 111, 183,  48,  52, 134,
       170, 132,  39, 211,  20,  25, 167,  41,
        87,  45, 119, 121,  83,  73,  17,  32,
       182,  74, 184, 231,  43, 141, 235, 133,
       205, 106, 234, 124, 182,   8, 154,  16,
        24,  36, 190, 235,   8, 129,  74,  66,
       138, 171,  31, 162, 200,  22,   8,  27 >>

Expected_TC1_256_20 ==
    << 118, 184, 224, 173, 160, 241,  61, 144,
        64,  93, 106, 229,  83, 134, 189,  40,
       189, 210,  25, 184, 160, 141, 237,  26,
       168,  54, 239, 204, 139, 119,  13, 199,
       218,  65,  89, 124,  81,  87,  72, 141,
       119,  36, 224,  63, 184, 216,  74,  55,
       106,  67, 184, 244,  21,  24, 161,  28,
       195, 135, 182, 105, 178, 238, 101, 134 >>

\* The (key, iv, rounds) an instance is constructed with.
Vectors ==
    { <<KeyZero16, IvB, DefaultRounds>>, <<KeyZero32, IvB, 20>>,
      <<KeyZero16, IvB, 9>>, <<KeyZero32, IvB, 21>>,
      <<Key16, IvA, 3>>, <<Key32, IvB, 1>> }

NextVec ==
    \/ \E v \in Vectors : Construct(v[1], v[2], v[3], 0)
    \/ \E data_in \in Blocks : NextBlock(data_in)

SpecVec == Init /\ [][NextVec]_vars

---------------------------------------------------------------------------
(* SpecTwo: two instances and a caller that interleaves calls on them.  In  *)
(* SpecTwo phase, obj, pre and hist hold one value per instance, <<first,   *)
(* second>>; last.who is the instance of the last call, and hist[i] is the  *)
(* calls made on instance i since its construction.  The attributes state,  *)
(* x and block_counter are lists made by the instance's own assignments     *)
(* ([0] * 16, self.state[:], a list comprehension, [0, 0]); the class has   *)
(* no attributes of its own and TAU and SIGMA are only read.                *)

\* Calls made on the two instances together after their construction.
MaxPair == 3

\* The (key, iv, rounds, verbose) of the two instances.
PairConfigs == << <<Key16, IvA, 2, 0>>, <<Key32, IvB, 4, 1>> >>

PairKeyIvs == {<<Key16, IvB>>}
PairBlocks == {Text64, Short10}

\* Instance i as the constructor leaves it.
PairInit(i) ==
    init(PairConfigs[i][1], PairConfigs[i][2], PairConfigs[i][3], PairConfigs[i][4]).obj

\* The attribute lists with everything shared but the working buffer x of
\* the called instance, as a class attribute x would be.
StoreShared(objs, i, o) ==
    [j \in 1..2 |-> IF j = i THEN o ELSE [objs[j] EXCEPT !.x = o.x]]

\* The assignments a method makes to the attributes of self, instance i.
Store(objs, i, o) == [objs EXCEPT ![i] = o]

InitTwo ==
    /\ phase = <<"none", "none">>
    /\ obj = <<NewObject(0, 0), NewObject(0, 0)>>
    /\ pre = <<NewObject(0, 0), NewObject(0, 0)>>
    /\ last = NoCall
    /\ cfg = NoCfg
    /\ hist = << << >>, << >> >>
    /\ calls = 0
    /\ counter = << >>
    /\ produced = << >>

\* Instance i is constructed: XChaCha(key, iv, rounds, verbose).
ConstructOf(i) ==
    /\ phase[i] = "none"
    /\ phase' = [phase EXCEPT ![i] = "live"]
    /\ obj' = Store(obj, i, PairInit(i))
    /\ pre' = obj
    /\ last' = [who |-> i, op |-> "init", key |-> PairConfigs[i][1],
                iv |-> PairConfigs[i][2], data |-> << >>, exc |-> "none",
                msg |-> "none", out |-> << >>]
    /\ UNCHANGED <<cfg, hist, calls, counter, produced>>

\* set_key_iv(key, iv) on instance i.
SetKeyIvOf(i, key, iv) ==
    /\ phase[i] = "live"
    /\ calls < MaxPair
    /\ \E r \in {set_key_iv(obj[i], key, iv)} :
           /\ obj' = Store(obj, i, r.obj)
           /\ last' = [who |-> i, op |-> "set_key_iv", key |-> key, iv |-> iv,
                       data |-> << >>, exc |-> r.exc, msg |-> r.msg, out |-> << >>]
           /\ hist' = [hist EXCEPT ![i] = Append(@, last')]
    /\ pre' = obj
    /\ calls' = calls + 1
    /\ UNCHANGED <<phase, cfg, counter, produced>>

\* next(data_in) on instance i.
NextOf(i, data_in) ==
    /\ phase[i] = "live"
    /\ calls < MaxPair
    /\ \E r \in {next(obj[i], data_in)} :
           /\ obj' = Store(obj, i, r.obj)
           /\ last' = [who |-> i, op |-> "next", key |-> << >>, iv |-> << >>,
                       data |-> data_in, exc |-> r.exc, msg |-> "none", out |-> r.out]
           /\ hist' = [hist EXCEPT ![i] = Append(@, last')]
    /\ pre' = obj
    /\ calls' = calls + 1
    /\ UNCHANGED <<phase, cfg, counter, produced>>

NextTwo ==
    \/ \E i \in 1..2 : ConstructOf(i)
    \/ \E i \in 1..2, ki \in PairKeyIvs : SetKeyIvOf(i, ki[1], ki[2])
    \/ \E i \in 1..2, data_in \in PairBlocks : NextOf(i, data_in)

SpecTwo == InitTwo /\ [][NextTwo]_vars

---------------------------------------------------------------------------
(* SpecRound: the rounds loop of one next() call, a _quarterround at a      *)
(* time.  obj is the instance after self.x = self.state[:]; calls counts    *)
(* the _quarterround calls made, calls % 8 of them in the _doubleround      *)
(* under way; hist is the (ai, bi, ci, di) of the calls of that             *)
(* _doubleround so far, last.data those of the last call.                   *)

\* _doubleround calls of the rounds loop that are followed.
MaxDouble == 1

\* A _doubleround that makes the diagonal calls before the column calls.
DiagonalsFirst ==
    << <<0, 5, 10, 15>>, <<1, 6, 11, 12>>, <<2, 7,  8, 13>>, <<3, 4,  9, 14>>,
       <<0, 4,  8, 12>>, <<1, 5,  9, 13>>, <<2, 6, 10, 14>>, <<3, 7, 11, 15>> >>

\* The _quarterround calls of _doubleround, in the order it makes them.
DoubleRoundCalls ==
    << <<0, 4,  8, 12>>, <<1, 5,  9, 13>>, <<2, 6, 10, 14>>, <<3, 7, 11, 15>>,
       <<0, 5, 10, 15>>, <<1, 6, 11, 12>>, <<2, 7,  8, 13>>, <<3, 4,  9, 14>> >>

\* 32 bit words the state of an instance is made of here: 0, 0xffffffff,
\* 0x80000000, 1, TAU[0], 0xffff0000, 0x0000ffff, 0x12345678.
WordPool ==
    << << >>, Mask32, W(32768, 0), W(0, 1), TAU[1], W(65535, 0), W(0, 65535),
       W(4660, 22136) >>

\* The states next() starts the rounds from.
Buffers ==
    {[i \in 0..15 |-> WordPool[((k * i + s) % 8) + 1]] : s \in 0..7, k \in {1, 3}}

InitRound ==
    /\ phase = "rounds"
    /\ \E b \in Buffers :
          /\ obj = [state |-> b, x |-> b, rounds |-> 2 * MaxDouble, verbose |-> 0,
                    block_counter |-> << << >>, << >> >>]
          /\ pre = obj
    /\ last = NoCall
    /\ cfg = NoCfg
    /\ hist = << >>
    /\ calls = 0
    /\ counter = << >>
    /\ produced = << >>

\* The next self._quarterround(ai, bi, ci, di) of the rounds loop.
QuarterRoundStep ==
    /\ phase = "rounds"
    /\ calls < 8 * MaxDouble
    /\ \E q \in {DoubleRoundCalls[(calls % 8) + 1]} :
          /\ obj' = [obj EXCEPT !.x = quarterround(obj.x, q[1], q[2], q[3], q[4])]
          /\ last' = [NoCall EXCEPT !.op = "quarterround", !.data = q]
          /\ hist' = IF calls % 8 = 0 THEN <<q>> ELSE Append(hist, q)
    /\ pre' = obj
    /\ calls' = calls + 1
    /\ UNCHANGED <<phase, cfg, counter, produced>>

NextRound == QuarterRoundStep

SpecRound == InitRound /\ [][NextRound]_vars

---------------------------------------------------------------------------
(* SpecRace: two next() calls on one instance, made by two threads with no  *)
(* lock, interleaved statement by statement.  obj is the shared instance,   *)
(* pre the instance when the calls start, and hist[i] the call of thread i: *)
(* its position pc in next(), its argument, its local data_out, and the     *)
(* number of the step (counted in calls) at which it copied the state and   *)
(* at which it assigned the feed-forward sum (0: not yet).                  *)

\* The data_in of the first and of the second thread.
RaceData == {<<Zero64, Text64>>, <<Text64, Text64>>, <<Text64, Zero64>>}

\* The instances the two calls are made on: one just constructed, one that
\* has returned a block.
RaceStarts ==
    {init(Key16, IvA, 2, 0).obj, next(init(Key32, IvB, 2, 0).obj, Zero64).obj}

RaceCall(data_in) ==
    [pc |-> "copy", data |-> data_in, out |-> << >>, copied |-> 0, fed |-> 0]

InitRace ==
    /\ phase = "racing"
    /\ obj \in RaceStarts
    /\ pre = obj
    /\ last = NoCall
    /\ cfg = NoCfg
    /\ \E d \in RaceData : hist = <<RaceCall(d[1]), RaceCall(d[2])>>
    /\ calls = 0
    /\ counter = << >>
    /\ produced = << >>

\* What every statement of a thread leaves alone, and the step count.
RaceStep(i, name) ==
    /\ calls' = calls + 1
    /\ last' = [who |-> i, op |-> name, key |-> << >>, iv |-> << >>,
                data |-> hist[i].data, exc |-> "none", msg |-> "none",
                out |-> hist'[i].out]
    /\ UNCHANGED <<phase, pre, cfg, counter, produced>>

\* self.x = self.state[:]
RaceCopy(i) ==
    /\ phase = "racing" /\ hist[i].pc = "copy"
    /\ obj' = [obj EXCEPT !.x = obj.state]
    /\ hist' = [hist EXCEPT ![i].pc = "rounds", ![i].copied = calls + 1]
    /\ RaceStep(i, "copy")

\* for i in range(int(self.rounds / 2)): self._doubleround()
RaceRounds(i) ==
    /\ phase = "racing" /\ hist[i].pc = "rounds"
    /\ obj' = [obj EXCEPT !.x = doublerounds(obj.x, obj.rounds \div 2)]
    /\ hist' = [hist EXCEPT ![i].pc = "feed"]
    /\ RaceStep(i, "rounds")

\* self.state = [((self.state[i] + self.x[i]) & 0xffffffff) for i in range(16)]
RaceFeed(i) ==
    /\ phase = "racing" /\ hist[i].pc = "feed"
    /\ obj' = [obj EXCEPT !.state = FeedForward(obj.state, obj.x)]
    /\ hist' = [hist EXCEPT ![i].pc = "out", ![i].fed = calls + 1]
    /\ RaceStep(i, "feed")

\* bytestate and data_out, from self.state as it is now.
RaceOut(i) ==
    /\ phase = "racing" /\ hist[i].pc = "out"
    /\ obj' = obj
    /\ hist' = [hist EXCEPT ![i].pc = "inc",
                            ![i].out = DataOut(hist[i].data, obj.state)]
    /\ RaceStep(i, "out")

\* self._inc_counter(); return data_out
RaceInc(i) ==
    /\ phase = "racing" /\ hist[i].pc = "inc"
    /\ obj' = [obj EXCEPT !.block_counter = inc_counter(obj.block_counter)]
    /\ hist' = [hist EXCEPT ![i].pc = "done"]
    /\ RaceStep(i, "inc")

NextRace ==
    \/ \E i \in 1..2 : RaceCopy(i)
    \/ \E i \in 1..2 : RaceRounds(i)
    \/ \E i \in 1..2 : RaceFeed(i)
    \/ \E i \in 1..2 : RaceOut(i)
    \/ \E i \in 1..2 : RaceInc(i)

SpecRace == InitRace /\ [][NextRace]_vars

---------------------------------------------------------------------------
(* The I2C command layer of the host programs, src/sw/trng_extract.py      *)
(* (class Comm, wait_ready) and src/sw/rosc_tester.py (class tc, tc_wait). *)
(*                                                                         *)
(* A call's outcome is a record: exc is the exception it raised ("none"    *)
(* when it returned), out the buffer it returned, dev the bytes the device *)
(* has yet to deliver, file the bytes written to the device file.  A       *)
(* Python list index i is the sequence index i + 1.                        *)
(* In SpecComm the variables hold:                                         *)
(*   phase     "idle", or "waiting" while a polling wait is in its loop    *)
(*   cfg       the module under test and the prefix/addr0, addr/addr1 the  *)
(*             calls are made with                                         *)
(* of the last call, and nothing of the calls before it:                   *)
(*   pre       the bytes the device had pending when its last read started *)
(*   obj       the pending bytes that read left                            *)
(*   hist      the bytes it wrote to the device file, in a wait those of   *)
(*             the last pass of its loop                                   *)
(*   last      the last call: its function, data argument, exception and   *)
(*             returned buffer                                             *)
(*   calls     the status reads the wait has issued                        *)
(*   produced  the device's pending bytes at each of those reads           *)

SOC == 85                  \* 0x55
EOC == 170                 \* 0xaa
READ_CMD == 16             \* 0x10
WRITE_CMD == 17            \* 0x11
SOR == 170                 \* 0xaa
EOR == 85                  \* 0x55
READ_OK == 127             \* 0x7f
WRITE_OK == 126            \* 0x7e
RESET_OK == 125            \* 0x7d
UNKNOWN == 254             \* 0xfe
ERROR == 253               \* 0xfd
ENT2_PREFIX == 6
ENT2_STATUS == 17          \* 0x11
CSPRNG_PREFIX == 11        \* 0x0b
CSPRNG_DATA == 32          \* 0x20
ADDR_CTRL == 8
ADDR_STATUS == 9
STATUS_READY_BIT == 0

\* A module: the names it binds at its top level, of those the functions
\* below look up when they run, and the name its get_resp raises.
trng_extract ==
    [name |-> "trng_extract",
     globals |-> {"VERBOSE", "DEBUG", "Commerror"},
     raises |-> "CommError"]

rosc_tester ==
    [name |-> "rosc_tester",
     globals |-> {"VERBOSE", "TcError"},
     raises |-> "TcError"]

\* What evaluating the global name n raises in module m.
NameLookup(m, n) == IF n \in m.globals THEN "none" ELSE "NameError"

\* I2C.write: if DEBUG: print ...; self.file.write(bytearray(buf)).
\* DEBUG is False where it is bound.
I2C_write(m, file, buf) ==
    IF NameLookup(m, "DEBUG") # "none"
    THEN [exc |-> "NameError", file |-> file]
    ELSE [exc |-> "none", file |-> file \o buf]

\* I2C.read: ord(self.file.read(1))
I2C_read(dev) == [b |-> Head(dev), dev |-> Tail(dev)]

\* data >> s & 0xff
DataByte(data, s) == ToInt(And(Shr(data, s), FromInt(255)))

Shifts == <<24, 16, 8, 0>>

\* buf of send_write_cmd
WriteCmdBuf(prefix, addr, data) ==
    <<SOC, WRITE_CMD, prefix, addr>>
        \o [k \in 1..4 |-> DataByte(data, Shifts[k])]
        \o <<EOC>>

\* buf of send_read_cmd
ReadCmdBuf(prefix, addr) == <<SOC, READ_CMD, prefix, addr, EOC>>

send_write_cmd(m, file, prefix, addr, data) ==
    I2C_write(m, file, WriteCmdBuf(prefix, addr, data))

send_read_cmd(m, file, prefix, addr) ==
    I2C_write(m, file, ReadCmdBuf(prefix, addr))

\* {READ_OK:9, WRITE_OK:5, RESET_OK:3, ERROR:4, UNKNOWN:4}
RespLen ==
    (READ_OK :> 9) @@ (WRITE_OK :> 5) @@ (RESET_OK :> 3) @@ (ERROR :> 4)
        @@ (UNKNOWN :> 4)

\* raise CommError() / raise TcError(): the name is looked up first.
RaiseCommError(m, dev) ==
    [exc |-> IF NameLookup(m, m.raises) = "none" THEN m.raises ELSE "NameError",
     out |-> << >>, dev |-> dev]

\* The while loop of get_resp and the statements after it.
RECURSIVE GetRespLoop(_, _, _, _, _)
GetRespLoop(m, buf, len, i, dev) ==
    IF i < len
    THEN \* b = self.i2c.read()
         IF i = 0 /\ I2C_read(dev).b # SOR
         THEN RaiseCommError(m, I2C_read(dev).dev)
         ELSE IF i = 1
         THEN IF I2C_read(dev).b \in DOMAIN RespLen
              THEN GetRespLoop(m, Append(buf, I2C_read(dev).b),
                               RespLen[I2C_read(dev).b], i + 1, I2C_read(dev).dev)
              ELSE RaiseCommError(m, I2C_read(dev).dev)
         ELSE GetRespLoop(m, Append(buf, I2C_read(dev).b), len, i + 1,
                          I2C_read(dev).dev)
    ELSE \* if DEBUG: print ...; return buf
         IF NameLookup(m, "DEBUG") # "none"
         THEN [exc |-> "NameError", out |-> << >>, dev |-> dev]
         ELSE [exc |-> "none", out |-> buf, dev |-> dev]

get_resp(m, dev) == GetRespLoop(m, << >>, 2, 0, dev)

\* Comm.read_data: send_read_cmd, then get_resp.
read_data(m, file, dev, prefix, addr) ==
    Only({IF w.exc # "none"
          THEN [exc |-> w.exc, out |-> << >>, dev |-> dev, file |-> w.file]
          ELSE Only({[exc |-> r.exc, out |-> r.out, dev |-> r.dev,
                      file |-> w.file] : r \in {get_resp(m, dev)}})
          : w \in {send_read_cmd(m, file, prefix, addr)}})

\* One pass of the loop of wait_ready:
\*   my_status = dev.read_data(prefix, addr)[7]
\* again says whether "while not my_status" goes round once more.
wait_ready(m, file, dev, prefix, addr) ==
    Only({IF r.exc # "none"
          THEN [exc |-> r.exc, out |-> r.out, dev |-> r.dev, file |-> r.file,
                again |-> FALSE]
          ELSE IF Len(r.out) < 8
          THEN [exc |-> "IndexError", out |-> << >>, dev |-> r.dev,
                file |-> r.file, again |-> FALSE]
          ELSE IF NameLookup(m, "VERBOSE") # "none"
          THEN [exc |-> "NameError", out |-> << >>, dev |-> r.dev,
                file |-> r.file, again |-> FALSE]
          ELSE [exc |-> "none", out |-> r.out, dev |-> r.dev, file |-> r.file,
                again |-> (r.out[8] = 0)]
          : r \in {read_data(m, file, dev, prefix, addr)}})

\* One pass of the loop of tc_wait, on t = tc(i2c, addr0, ADDR_STATUS):
\*   t.send_read_cmd(); buf = t.get_resp()
\*   if ((buf[7] & status) == status): break
tc_wait(m, file, dev, addr0, status) ==
    Only({IF r.exc # "none"
          THEN [exc |-> r.exc, out |-> r.out, dev |-> r.dev, file |-> r.file,
                again |-> FALSE]
          ELSE IF Len(r.out) < 8
          THEN [exc |-> "IndexError", out |-> << >>, dev |-> r.dev,
                file |-> r.file, again |-> FALSE]
          ELSE [exc |-> "none", out |-> r.out, dev |-> r.dev, file |-> r.file,
                again |-> (And16(r.out[8], status) # status)]
          : r \in {read_data(m, file, dev, addr0, ADDR_STATUS)}})

\* tc_wait_ready: tc_wait(i2c, addr0, STATUS_READY_BIT)
tc_wait_ready(m, file, dev, addr0) ==
    tc_wait(m, file, dev, addr0, STATUS_READY_BIT)

\* The ready wait of a module, and one pass of its loop.
ReadyWait(m) ==
    IF m.name = "trng_extract" THEN "wait_ready" ELSE "tc_wait_ready"

ReadyWaitPass(m, file, dev, prefix, addr) ==
    IF m.name = "trng_extract"
    THEN wait_ready(m, file, dev, prefix, addr)
    ELSE tc_wait_ready(m, file, dev, prefix)

\* The data words written.
DataWords ==
    {<< >>, FromInt(1), FromInt(2), W(4660, 22136), W(32768, 0),
     W(255, 65280), W(65535, 65535)}

\* The cores addressed: prefix/addr0 and addr/addr1.
Targets ==
    {<<ENT2_PREFIX, ENT2_STATUS>>, <<CSPRNG_PREFIX, CSPRNG_DATA>>,
     <<ENT2_PREFIX, ADDR_CTRL>>}

\* The low byte of the status words the device reports: neither bit, ready,
\* valid, both.
StatusBytes == {0, 1, 2, 3}

\* What the device has pending when a read starts: a response of each code,
\* one that does not start with SOR, one with a code that is none of the
\* five; alone, or followed by the start of the next response.
Responses(p, a) ==
    {<<SOR, READ_OK, p, a, 0, 0, 0, s, EOR>> : s \in StatusBytes}
        \cup {<<SOR, READ_OK, p, a, 18, 52, 86, 120, EOR>>,
              <<SOR, WRITE_OK, p, a, EOR>>,
              <<SOR, RESET_OK, EOR>>,
              <<SOR, ERROR, 1, EOR>>,
              <<SOR, UNKNOWN, 1, EOR>>,
              <<EOR, READ_OK, p, a, 0, 0, 0, 1, EOR>>,
              <<0, SOR, READ_OK>>,
              <<SOR, 0, p, a, EOR>>,
              <<SOR, SOR, READ_OK>>}

Pending(p, a) ==
    {r \o t : r \in Responses(p, a), t \in {<< >>, <<SOR, READ_OK>>}}

MaxPolls == 3

NoCommCall == [op |-> "none", data |-> << >>, exc |-> "none", out |-> << >>]

InitComm ==
    /\ phase = "idle"
    /\ \E m \in {trng_extract, rosc_tester}, t \in Targets :
           cfg = [module |-> m, prefix |-> t[1], addr |-> t[2]]
    /\ obj = << >>
    /\ pre = << >>
    /\ last = NoCommCall
    /\ hist = << >>
    /\ calls = 0
    /\ counter = << >>
    /\ produced = << >>

\* send_write_cmd(prefix, addr, data) / tc(i2c, addr0, addr1).send_write_cmd(data)
SendWriteCmd ==
    /\ phase = "idle"
    /\ \E data \in DataWords :
         \E r \in {send_write_cmd(cfg.module, << >>, cfg.prefix, cfg.addr, data)} :
           /\ hist' = r.file
           /\ last' = [op |-> "send_write_cmd", data |-> data, exc |-> r.exc,
                       out |-> << >>]
    /\ obj' = << >> /\ pre' = << >> /\ calls' = 0 /\ produced' = << >>
    /\ UNCHANGED <<phase, cfg, counter>>

\* send_read_cmd(prefix, addr) / tc(i2c, addr0, addr1).send_read_cmd()
SendReadCmd ==
    /\ phase = "idle"
    /\ \E r \in {send_read_cmd(cfg.module, << >>, cfg.prefix, cfg.addr)} :
           /\ hist' = r.file
           /\ last' = [op |-> "send_read_cmd", data |-> << >>, exc |-> r.exc,
                       out |-> << >>]
    /\ obj' = << >> /\ pre' = << >> /\ calls' = 0 /\ produced' = << >>
    /\ UNCHANGED <<phase, cfg, counter>>

\* get_resp()
GetResp ==
    /\ phase = "idle"
    /\ \E dev \in Pending(cfg.prefix, cfg.addr) :
         \E r \in {get_resp(cfg.module, dev)} :
           /\ pre' = dev
           /\ obj' = r.dev
           /\ last' = [op |-> "get_resp", data |-> << >>, exc |-> r.exc,
                       out |-> r.out]
    /\ hist' = << >> /\ calls' = 0 /\ produced' = << >>
    /\ UNCHANGED <<phase, cfg, counter>>

\* wait_ready(dev, prefix, addr) / tc_wait_ready(i2c, addr0) is called:
\* my_status = False / t = tc(i2c, addr0, ADDR_STATUS)
WaitStart ==
    /\ phase = "idle"
    /\ phase' = "waiting"
    /\ calls' = 0
    /\ produced' = << >>
    /\ hist' = << >>
    /\ last' = [op |-> ReadyWait(cfg.module), data |-> << >>, exc |-> "none",
                out |-> << >>]
    /\ obj' = << >> /\ pre' = << >>
    /\ UNCHANGED <<cfg, counter>>

\* One pass of the wait's loop; the wait returns or raises with the pass
\* that ends the loop.
WaitPoll ==
    /\ phase = "waiting"
    /\ calls < MaxPolls
    /\ \E dev \in Pending(cfg.prefix, cfg.addr) :
         \E r \in {ReadyWaitPass(cfg.module, << >>, dev, cfg.prefix, cfg.addr)} :
           /\ pre' = dev
           /\ obj' = r.dev
           /\ hist' = r.file
           /\ produced' = Append(produced, dev)
           /\ last' = [last EXCEPT !.exc = r.exc, !.out = r.out]
           /\ phase' = IF r.again THEN "waiting" ELSE "idle"
    /\ calls' = calls + 1
    /\ UNCHANGED <<cfg, counter>>

NextComm ==
    \/ SendWriteCmd
    \/ SendReadCmd
    \/ GetResp
    \/ WaitStart
    \/ WaitPoll

SpecComm == InitComm /\ [][NextComm]_vars

---------------------------------------------------------------------------
(* Claims.                                                                 *)

ZeroCounter == << << >>, << >> >>

\* The instance holds the key and iv of a set_key_iv call that ran to its
\* end with a key of 16 or 32 bytes.
Keyed == phase = "live" /\ cfg.supported /\ ~cfg.torn

\* The next() calls since the key was set all returned a block.
AllReturned == \A k \in 1..Len(hist) : hist[k].exc = "none"

\* C1: initialising a cipher (the constructor or set_key_iv) with a key of
\* neither 16 nor 32 bytes fails with an error, and no later next() call on
\* an instance initialised that way returns a block.
C1_UnsupportedKeyLengthFails ==
    /\ (last.op \in {"init", "set_key_iv"} /\ Len(last.key) \notin {16, 32})
          => last.exc # "none"
    /\ (phase = "live" /\ ~cfg.supported)
          => \A k \in 1..Len(hist) : hist[k].exc # "none"

\* C2: set_key_iv on an initialised instance with a key of neither 16 nor 32
\* bytes leaves all 16 state words and the block counter as they were
\* before the call.
C2_FailedRekeyKeepsState ==
    (last.op = "set_key_iv" /\ Len(last.key) \notin {16, 32})
       => (obj.state = pre.state /\ obj.block_counter = pre.block_counter)

\* The 64 keystream bytes of block k (k = 0 for the first block) as C3 states
\* them: from the layout set_key_iv builds, with the counter words 12-13 set
\* to k.
CounterKeystream(key, iv, rounds, k) ==
    Only({ ByteState(FeedForward(st, doublerounds(st, rounds \div 2)), 16)
           : st \in {[init(key, iv, rounds, 0).obj.state
                        EXCEPT ![12] = FromInt(k), ![13] = << >>]} })

\* C3: the output of the (k+1)-th next() call after initialisation is the
\* input block XOR the keystream block derived from the initial layout with
\* the counter words set to k.
C3_KeystreamFromCounter ==
    (Keyed /\ AllReturned)
       => \A k \in 1..Len(hist) :
             \E ks \in {CounterKeystream(cfg.key, cfg.iv, obj.rounds, k - 1)} :
                hist[k].out = [i \in 1..64 |-> XorByte(hist[k].in[i], ks[i])]

\* C4: after N next() calls on a fresh instance the block counter is N as
\* two 32 bit words: low = N mod 2^32, high = floor(N / 2^32).
C4_CounterIsBlockCount ==
    phase = "counting"
       => counter = <<And(produced, Mask32), Shr(produced, 32)>>

\* C5: whenever a next() call can start, state words 12 and 13 hold the
\* block counter (word 12 the low word, word 13 the high word).
C5_StateHoldsCounter ==
    (phase = "live" /\ last.exc = "none")
       => (obj.state[12] = obj.block_counter[1] /\ obj.state[13] = obj.block_counter[2])

\* C6: a next() call that returns a block leaves the constant words 0-3, the
\* key words 4-11 and the iv words 14-15 of the state unchanged.
C6_NextKeepsKeyWords ==
    (last.op = "next" /\ last.exc = "none")
       => \A i \in (0..11) \cup {14, 15} : obj.state[i] = pre.state[i]

\* A working buffer no call leaves behind.
Scratch == [i \in 0..15 |-> <<i + 1>>]

\* An instance with the state words, block counter and round count of o, and
\* with another working buffer x and another verbose setting.
Twin(o) == [o EXCEPT !.x = Scratch, !.verbose = 1 - o.verbose]

\* C7: next() is deterministic: an instance with the same state words, block
\* counter and round count, whatever its working buffer x and its verbose
\* setting, returns the same output for the same 64 byte input and ends in
\* the same state.
C7_NextDeterministic ==
    (last.op = "next" /\ Len(last.data) = 64)
       => \E r \in {next(Twin(pre), last.data)} :
             /\ r.exc = last.exc
             /\ r.out = last.out
             /\ r.obj.state = obj.state
             /\ r.obj.x = obj.x
             /\ r.obj.block_counter = obj.block_counter

\* C7's case: a 64 byte block went through next() on an instance whose
\* working buffer held the leftover of an earlier call.
C7_Witness ==
    /\ last.op = "next" /\ Len(last.data) = 64 /\ last.exc = "none"
    /\ pre.x # Zero16 /\ pre.x # Twin(pre).x /\ pre.verbose # Twin(pre).verbose

\* The outputs of feeding the blocks, in order, through next() on o.
RECURSIVE Feed(_, _)
Feed(o, blocks) ==
    IF blocks = << >> THEN << >>
    ELSE Only({ <<r.out>> \o Feed(r.obj, Tail(blocks)) : r \in {next(o, Head(blocks))} })

\* C8: feeding the ciphertext blocks, in order, through next() on an instance
\* initialised with the same key, iv and round count returns the plaintext
\* blocks.
C8_Involution ==
    (Keyed /\ AllReturned
        /\ \A k \in 1..Len(hist) : Len(hist[k].in) = 64)
       => Feed(init(cfg.key, cfg.iv, obj.rounds, obj.verbose).obj,
               [k \in 1..Len(hist) |-> hist[k].out])
          = [k \in 1..Len(hist) |-> hist[k].in]

\* C8's case: two plaintext blocks were encrypted under a supported key, and
\* the ciphertext differs from the plaintext.
C8_Witness ==
    /\ Keyed /\ AllReturned
    /\ Len(hist) = 2
    /\ \A k \in 1..2 : Len(hist[k].in) = 64 /\ hist[k].out # hist[k].in
    /\ hist[1].in = Text64

\* C9: set_key_iv with a valid key and iv resets the block counter:
\* block_counter becomes [0, 0] and state words 12 and 13 become 0.
C9_RekeyResetsCounter ==
    (last.op = "set_key_iv" /\ last.exc = "none" /\ Len(last.key) \in {16, 32})
       => /\ obj.block_counter = ZeroCounter
          /\ obj.state[12] = << >>
          /\ obj.state[13] = << >>

\* C9's case: set_key_iv with a valid key on an instance that has produced a
\* block.
C9_Witness ==
    /\ last.op = "set_key_iv" /\ last.exc = "none" /\ Len(last.key) \in {16, 32}
    /\ pre.block_counter # ZeroCounter
    /\ pre.state[12] # << >>

\* C10, as claimed: a next() call whose input is not exactly 64 bytes long is
\* rejected with an error before any state is mutated, and returns no block.
C10_BadLengthRejected ==
    (last.op = "next" /\ Len(last.data) # 64)
       => /\ last.exc # "none"
          /\ last.out = << >>
          /\ obj.state = pre.state
          /\ obj.block_counter = pre.block_counter

\* C10, amended: a next() call with fewer than 64 input bytes raises
\* IndexError and returns no block, with the block counter unchanged but the
\* state words and x already replaced by the call's rounds and feed-forward;
\* a call with more than 64 input bytes is not rejected: it does what the
\* call with the first 64 bytes does.
C10_BadLengthOutcome ==
    /\ (last.op = "next" /\ Len(last.data) < 64)
          => /\ last.exc = "IndexError"
             /\ last.out = << >>
             /\ obj.block_counter = pre.block_counter
             /\ \E r \in {next(pre, Zero64)} :
                   obj.state = r.obj.state /\ obj.x = r.obj.x /\ obj.state # pre.state
    /\ (last.op = "next" /\ Len(last.data) > 64)
          => \E r \in {next(pre, Slice(last.data, 0, 64))} :
                last.exc = "none" /\ last.out = r.out /\ obj = r.obj

\* C10's case: a call with too few bytes, then a call with too many.
C10_Witness ==
    /\ Len(hist) = 2
    /\ Len(hist[1].in) < 64 /\ hist[1].exc = "IndexError"
    /\ last.op = "next" /\ Len(last.data) > 64 /\ Len(last.out) = 64

\* Bits 8m .. 8m+7 of a 32 bit word, for m in 0..3.
WordByte(w, m) ==
    IF m % 2 = 0 THEN Limb(w, m \div 2 + 1) % 256
    ELSE Limb(w, m \div 2 + 1) \div 256

\* (a + b) mod 2^32 of two 32 bit words: the two low limbs of the sum.
SumMod32(a, b) == Only({Norm(<<Limb(s, 1), Limb(s, 2)>>) : s \in {AddLimbs(a, b)}})

\* C11: for a 64 byte input next() returns 64 bytes, and output byte 4j+m is
\* input byte 4j+m xor bits 8m..8m+7 of (state[j] + x[j]) mod 2^32, with
\* state[j] the state word before the rounds and x[j] the working buffer word
\* after them.
C11_OutputSerialization ==
    (last.op = "next" /\ Len(last.data) = 64)
       => /\ last.exc = "none"
          /\ Len(last.out) = 64
          /\ \A j \in 0..15 :
                \E w \in {SumMod32(pre.state[j], obj.x[j])} :
                   \A m \in 0..3 :
                      \E k \in {4 * j + m + 1} :
                         /\ last.out[k] \in 0..255
                         /\ \A e \in 0..7 :
                               ((last.out[k] \div 2^e) + (last.data[k] \div 2^e)) % 2
                                  = (WordByte(w, m) \div 2^e) % 2

\* C11's case: a block that is not all zero went through next() on an
\* instance that had produced a block before.
C11_Witness ==
    /\ last.op = "next" /\ last.data = Text64 /\ last.exc = "none"
    /\ Len(hist) = 2 /\ hist[1].exc = "none"
    /\ last.out # last.data


\* C12: a fresh instance with the all zero 16 byte key, the all zero 8 byte
\* iv and the default round count returns the vector of TC1-128-8 for the
\* first next() call on the all zero 64 byte block.
C12_KnownAnswer_128_8 ==
    (/\ phase = "live" /\ Len(hist) = 1 /\ last.op = "next"
     /\ cfg.key = KeyZero16 /\ cfg.iv = IvB /\ obj.rounds = DefaultRounds
     /\ last.data = Zero64)
       => (last.exc = "none" /\ last.out = Expected_TC1_128_8)

\* C12's case: the first block of the TC1-128-8 instance has been returned.
C12_Witness ==
    /\ phase = "live" /\ hist = <<[in |-> Zero64, out |-> last.out, exc |-> "none"]>>
    /\ cfg.key = KeyZero16 /\ cfg.iv = IvB /\ obj.rounds = DefaultRounds
    /\ last.op = "next" /\ pre.block_counter = ZeroCounter

\* C13: a fresh instance with the all zero 32 byte key, the all zero 8 byte
\* iv and rounds = 20 returns the vector of TC1-256-20 for the first next()
\* call on the all zero 64 byte block.
C13_KnownAnswer_256_20 ==
    (/\ phase = "live" /\ Len(hist) = 1 /\ last.op = "next"
     /\ cfg.key = KeyZero32 /\ cfg.iv = IvB /\ obj.rounds = 20
     /\ last.data = Zero64)
       => (last.exc = "none" /\ last.out = Expected_TC1_256_20)

\* C13's case: the first block of the TC1-256-20 instance has been returned.
C13_Witness ==
    /\ phase = "live" /\ hist = <<[in |-> Zero64, out |-> last.out, exc |-> "none"]>>
    /\ cfg.key = KeyZero32 /\ cfg.iv = IvB /\ obj.rounds = 20
    /\ last.op = "next" /\ pre.state[0] = SIGMA[1]


\* The little-endian 32 bit word of the four bytes of l from offset k on
\* (offsets from 0).
LeWord(l, k) == W(l[k + 4] * 256 + l[k + 3], l[k + 2] * 256 + l[k + 1])

\* C14: after set_key_iv with a key of 16 or 32 bytes and an iv of 8 bytes,
\* words 0-3 are TAU (16 byte key) or SIGMA (32 byte key), words 4-11 the four
\* little-endian key words twice (16 byte key) or the eight key words (32 byte
\* key), words 12-13 zero and words 14-15 the two little-endian iv words.
C14_InitialLayout ==
    (/\ last.op \in {"init", "set_key_iv"} /\ last.exc = "none"
     /\ Len(last.key) \in {16, 32} /\ Len(last.iv) = 8)
       => /\ \A i \in 0..3 :
                obj.state[i] = IF Len(last.key) = 16 THEN TAU[i + 1] ELSE SIGMA[i + 1]
          /\ \A i \in 4..11 :
                obj.state[i] = LeWord(last.key, (4 * (i - 4)) % Len(last.key))
          /\ obj.state[12] = << >>
          /\ obj.state[13] = << >>
          /\ obj.state[14] = LeWord(last.iv, 0)
          /\ obj.state[15] = LeWord(last.iv, 4)

\* C14's case: an instance keyed with 16 bytes has produced a block and is
\* keyed again with 32 bytes.
C14_Witness ==
    /\ last.op = "set_key_iv" /\ last.exc = "none"
    /\ Len(last.key) = 32 /\ Len(last.iv) = 8
    /\ Len(pre.block_counter) = 2 /\ pre.block_counter # ZeroCounter
    /\ pre.state[4] # obj.state[4]
    /\ obj.state[8] # obj.state[4]


\* C15: an odd round count 2k+1 is truncated without error: next() returns
\* the same output and leaves the same state words, working buffer and block
\* counter as on the same instance with round count 2k, which is k
\* doublerounds.
C15_OddRoundsTruncated ==
    (last.op = "next" /\ pre.rounds % 2 = 1)
       => /\ Len(last.data) >= 64 => last.exc = "none"
          /\ \E r \in {next([pre EXCEPT !.rounds = pre.rounds - 1], last.data)} :
                /\ r.exc = last.exc
                /\ r.out = last.out
                /\ r.obj.state = obj.state
                /\ r.obj.x = obj.x
                /\ r.obj.block_counter = obj.block_counter
          /\ obj.x = doublerounds(pre.state, (pre.rounds - 1) \div 2)

\* C15's case: an instance with 9 rounds has returned two blocks.
C15_Witness ==
    /\ last.op = "next" /\ last.exc = "none" /\ pre.rounds = 9
    /\ Len(hist) = 2 /\ hist[1].exc = "none"
    /\ obj.x # pre.state


\* C16: set_key_iv, called by the constructor or on an instance, does not
\* complete when the iv is not exactly 8 bytes long, shorter or longer.
C16_IvLengthEnforced ==
    (last.op \in {"init", "set_key_iv"} /\ Len(last.iv) # 8)
       => last.exc # "none"


\* The results of the calls cs made, in order, on an instance o that no
\* other instance exists beside: the instance they leave and what each call
\* raised and returned.
RECURSIVE Alone(_, _)
Alone(o, cs) ==
    IF cs = << >> THEN [obj |-> o, res |-> << >>]
    ELSE Only({ Only({ [obj |-> a.obj,
                        res |-> <<[exc |-> r.exc, out |-> r.out]>> \o a.res]
                       : a \in {Alone(r.obj, Tail(cs))} })
                : r \in {IF Head(cs).op = "next"
                         THEN next(o, Head(cs).data)
                         ELSE [set_key_iv(o, Head(cs).key, Head(cs).iv)
                                  EXCEPT !.msg = << >>] @@ [out |-> << >>]} })

\* C17: a call on one of two instances leaves the other's state words,
\* working buffer and block counter unchanged, and the calls made on an
\* instance raise and return what they do when it is run alone.
C17_InstancesIndependent ==
    /\ last.op # "none"
          => \A j \in 1..2 : j # last.who => obj[j] = pre[j]
    /\ \A i \in 1..2 :
          phase[i] = "live"
             => \E a \in {Alone(PairInit(i), hist[i])} :
                   /\ a.obj = obj[i]
                   /\ a.res = [k \in 1..Len(hist[i]) |->
                                  [exc |-> hist[i][k].exc, out |-> hist[i][k].out]]

\* C17's case: calls on the two instances were interleaved, a call on the
\* second one coming last, and both have returned a block.
C17_Witness ==
    /\ phase = <<"live", "live">>
    /\ last.op = "next" /\ last.who = 2 /\ last.exc = "none"
    /\ Len(hist[2]) = 2 /\ Len(hist[1]) = 1
    /\ hist[1][1].op = "next" /\ hist[1][1].exc = "none"
    /\ obj[2].x # pre[2].x /\ obj[1].x # obj[2].x


\* Bit i of a 32 bit word.
Bit(v, i) == (Limb(v, i \div 16 + 1) \div 2^(i % 16)) % 2

\* The 16 bits from bit lo on of the circular left rotation of v by n: bit i
\* of the rotation is bit (i - n) mod 32 of v.
RECURSIVE RotlBits(_, _, _, _)
RotlBits(v, n, lo, k) ==
    IF k = 16 THEN 0
    ELSE Bit(v, (lo + k + 32 - n) % 32) * 2^k + RotlBits(v, n, lo, k + 1)

\* The circular left rotation of the 32 bit word v by n.
Rotl(v, n) == Only({W(RotlBits(w, n, 16, 0), RotlBits(w, n, 0, 0)) : w \in {v}})

\* The quarterround of C18 on the words a, b, c, d: <<a'', b'', c'', d''>>.
QuarterRef(a, b, c, d) ==
    Only({ Only({ Only({ Only({ Only({ Only({ Only({ Only({
        <<a2, b2, c2, d2>>
        : b2 \in {Rotl(Xor(b1, c2), 7)} })
        : c2 \in {SumMod32(c1, d2)} })
        : d2 \in {Rotl(Xor(d1, a2), 8)} })
        : a2 \in {SumMod32(a1, b1)} })
        : b1 \in {Rotl(Xor(b, c1), 12)} })
        : c1 \in {SumMod32(c, d1)} })
        : d1 \in {Rotl(Xor(d, a1), 16)} })
        : a1 \in {SumMod32(a, b)} })

\* C18: _quarterround on the words a, b, c, d yields a' = a+b; d' = rotl(d
\* xor a', 16); c' = c+d'; b' = rotl(b xor c', 12); a'' = a'+b'; d'' = rotl(d'
\* xor a'', 8); c'' = c'+d''; b'' = rotl(b' xor c'', 7), the additions mod
\* 2^32, and the code's rotation expression is the circular left rotation for
\* n in {16, 12, 8, 7}.
C18_QuarterRoundArithmetic ==
    last.op = "quarterround"
       => /\ <<obj.x[last.data[1]], obj.x[last.data[2]],
                obj.x[last.data[3]], obj.x[last.data[4]]>>
                = QuarterRef(pre.x[last.data[1]], pre.x[last.data[2]],
                             pre.x[last.data[3]], pre.x[last.data[4]])
          /\ \A i \in 0..15, n \in {16, 12, 8, 7} :
                /\ RotExpr(pre.x[i], n) = Rotl(pre.x[i], n)
                /\ RotExpr(obj.x[i], n) = Rotl(obj.x[i], n)

\* C18's case: a diagonal _quarterround on words that bits of are rotated
\* around the end of the word (the top bit of its d is set).
C18_Witness ==
    /\ last.op = "quarterround" /\ calls > 4
    /\ Bit(pre.x[last.data[4]], 31) = 1
    /\ Bit(pre.x[last.data[2]], 31) = 1
    /\ obj.x[last.data[1]] # pre.x[last.data[1]]

\* C19: _quarterround(ai, bi, ci, di) writes the positions ai, bi, ci, di of
\* x alone, with values that the four old words at these positions determine,
\* and leaves the other 12 words of x, the state words, the block counter and
\* the round count unchanged.
C19_QuarterRoundFrame ==
    last.op = "quarterround"
       => /\ \A j \in 0..15 :
                j \notin {last.data[k] : k \in 1..4} => obj.x[j] = pre.x[j]
          /\ obj.state = pre.state
          /\ obj.block_counter = pre.block_counter
          /\ obj.rounds = pre.rounds
          /\ \E y \in {quarterround(
                          [j \in 0..15 |-> IF j \in {last.data[k] : k \in 1..4}
                                           THEN pre.x[j] ELSE Scratch[j]],
                          last.data[1], last.data[2], last.data[3], last.data[4])} :
                \A k \in 1..4 : y[last.data[k]] = obj.x[last.data[k]]

\* C19's case: a _quarterround has changed its four words of a buffer whose
\* other words are not all zero, after an earlier one.
C19_Witness ==
    /\ last.op = "quarterround" /\ calls = 2
    /\ \A k \in 1..4 : obj.x[last.data[k]] # pre.x[last.data[k]]
    /\ \E j \in 0..15 : j \notin {last.data[k] : k \in 1..4} /\ pre.x[j] # << >>
    /\ obj.x # obj.state

\* The order of C20: the columns, then the diagonals.
ColumnsThenDiagonals ==
    << <<0, 4, 8, 12>>, <<1, 5, 9, 13>>, <<2, 6, 10, 14>>, <<3, 7, 11, 15>>,
       <<0, 5, 10, 15>>, <<1, 6, 11, 12>>, <<2, 7, 8, 13>>, <<3, 4, 9, 14>> >>

\* The number of the calls from to .. upto of hist that write position p.
Writes(p, from, upto) ==
    Cardinality({k \in from..upto : \E m \in 1..4 : hist[k][m] = p})

\* C20: a _doubleround makes its eight _quarterround calls in the order
\* (0,4,8,12), (1,5,9,13), (2,6,10,14), (3,7,11,15), (0,5,10,15), (1,6,11,12),
\* (2,7,8,13), (3,4,9,14), and every one of the 16 positions is written once
\* by the first four calls and once by the last four.
C20_DoubleRoundOrder ==
    phase = "rounds"
       => /\ Len(hist) <= 8
          /\ hist = SubSeq(ColumnsThenDiagonals, 1, Len(hist))
          /\ calls > 0 => Len(hist) = ((calls - 1) % 8) + 1
          /\ Len(hist) = 8
                => /\ \A p \in 0..15 : Writes(p, 1, 4) = 1 /\ Writes(p, 5, 8) = 1
                   /\ obj.x = doublerounds(obj.state, calls \div 8)

\* C20's case: a whole _doubleround has been made.
C20_Witness ==
    /\ phase = "rounds" /\ calls = 8 /\ Len(hist) = 8
    /\ last.data = <<3, 4, 9, 14>>
    /\ obj.x # obj.state


\* C21: a next() call that returns a block advances the block counter by one
\* increment, made after the output has been computed, and a next() call that
\* raises (which it does where the output is computed) leaves the block
\* counter unchanged.
C21_CounterAdvancedPerBlock ==
    (phase = "live" /\ last.op = "next")
       => /\ last.exc = "none"
                => /\ Len(last.out) = 64
                   /\ obj.block_counter[1] = Add(pre.block_counter[1], FromInt(1))
                   /\ obj.block_counter[2] = pre.block_counter[2]
          /\ last.exc # "none"
                => /\ last.out = << >>
                   /\ obj.block_counter = pre.block_counter
          /\ ~cfg.torn
                => obj.block_counter[1]
                      = FromInt(Cardinality({k \in 1..Len(hist) : hist[k].exc = "none"}))

\* C21's case: a next() call that raised, then one that returned a block.
C21_Witness ==
    /\ phase = "live" /\ last.op = "next" /\ last.exc = "none"
    /\ Len(hist) = 2 /\ hist[1].exc = "IndexError"
    /\ pre.block_counter = ZeroCounter
    /\ obj.block_counter = <<FromInt(1), << >> >>


\* A Python integer in 0 .. 2^32 - 1: at most two limbs.
Is32Bit(v) == Len(v) <= 2

\* C22: every word of state, every word of the working buffer x and both
\* block counter words lie in 0 .. 2^32 - 1.
C22_WordsAre32Bit ==
    /\ \A i \in 0..15 : Is32Bit(obj.state[i]) /\ Is32Bit(obj.x[i])
    /\ phase = "counting" => (Is32Bit(counter[1]) /\ Is32Bit(counter[2]))


\* C24: set_key_iv with a key of 16 or 32 bytes and an iv of 8 bytes leaves
\* the state words and the block counter of a freshly constructed instance
\* with that key and iv, whatever calls came before; the outputs that follow
\* are those of the fresh instance; and the same call again changes nothing.
C24_RekeyErasesHistory ==
    /\ (/\ phase = "live" /\ last.op = "set_key_iv" /\ last.exc = "none"
        /\ Len(last.key) \in {16, 32} /\ Len(last.iv) = 8)
          => /\ \E f \in {init(last.key, last.iv, obj.rounds, obj.verbose)} :
                   /\ f.exc = "none"
                   /\ obj.state = f.obj.state
                   /\ obj.block_counter = f.obj.block_counter
             /\ \E again \in {set_key_iv(obj, last.key, last.iv)} :
                   again.exc = "none" /\ again.obj = obj
    /\ (Keyed /\ Len(cfg.iv) = 8)
          => \E f \in {init(cfg.key, cfg.iv, obj.rounds, obj.verbose)} :
                Feed(f.obj, [k \in 1..Len(hist) |-> hist[k].in])
                   = [k \in 1..Len(hist) |-> hist[k].out]

\* C24's case: an instance is keyed again, with a 16 byte key, and then
\* returns its first block under that key.
C24_Witness ==
    /\ Keyed /\ Len(cfg.key) = 16 /\ Len(cfg.iv) = 8
    /\ last.op = "next" /\ last.exc = "none" /\ Len(hist) = 1
    /\ pre.block_counter = ZeroCounter
    /\ pre.x = Zero16 /\ pre.state[0] = TAU[1]
    /\ calls = 2


\* The 16 little-endian words of out xor in, the keystream of a block.
KeystreamWords(in, out) ==
    Only({[j \in 0..15 |-> LeWord(ks, 4 * j)]
          : ks \in {[k \in 1..64 |-> XorByte(in[k], out[k])]}})

\* C25: after a next() call that returned a block the 16 state words are the
\* little-endian words of output xor input, and the next call (no
\* set_key_iv having assigned to the state in between) runs its rounds on a
\* copy of these words.
C25_StateIsKeystream ==
    (phase = "live" /\ last.op = "next" /\ last.exc = "none")
       => /\ obj.state = KeystreamWords(last.data, last.out)
          /\ (Len(hist) >= 2 /\ hist[Len(hist) - 1].exc = "none" /\ ~cfg.torn)
                => \E ks \in {KeystreamWords(hist[Len(hist) - 1].in,
                                             hist[Len(hist) - 1].out)} :
                      /\ pre.state = ks
                      /\ obj.x = doublerounds(ks, obj.rounds \div 2)
                      /\ obj.state = FeedForward(ks, obj.x)

\* C25's case: two blocks in a row, the second computed from the keystream
\* of the first.
C25_Witness ==
    /\ phase = "live" /\ last.op = "next" /\ last.exc = "none"
    /\ Len(hist) = 2 /\ hist[1].exc = "none" /\ hist[1].in = Text64
    /\ hist[1].out # hist[1].in
    /\ obj.state # pre.state


\* The outcome of the two calls of SpecRace made one after the other, the
\* call of thread a first: <<output of thread 1, output of thread 2>> and the
\* instance they leave.
Serial(a) ==
    Only({ Only({ [outs |-> IF a = 1 THEN <<ra.out, rb.out>> ELSE <<rb.out, ra.out>>,
                   obj |-> rb.obj]
                  : rb \in {next(ra.obj, hist[3 - a].data)} })
           : ra \in {next(pre, hist[a].data)} })

\* Both calls have returned.
RaceDone == phase = "racing" /\ hist[1].pc = "done" /\ hist[2].pc = "done"

\* Each call copied the state before the other assigned its feed-forward sum.
Overlapped ==
    /\ hist[1].copied > 0 /\ hist[2].copied > 0
    /\ hist[1].fed > 0 => hist[2].copied < hist[1].fed
    /\ hist[2].fed > 0 => hist[1].copied < hist[2].fed

\* C23: when two next() calls on one instance are interleaved so that each
\* copies the state before the other has assigned its feed-forward sum, the
\* two outputs and the final state words differ from those of both serial
\* orders of the two calls.
C23_UnserializedCallsDiverge ==
    (RaceDone /\ Overlapped)
       => \A a \in 1..2 :
             \E s \in {Serial(a)} :
                /\ <<hist[1].out, hist[2].out>> # s.outs
                /\ obj.state # s.obj.state

\* C23's case: the statements of the two calls alternated, and both calls
\* have returned.
C23_Witness ==
    /\ RaceDone /\ Overlapped
    /\ hist[1].copied = 1 /\ hist[2].copied = 2
    /\ hist[1].fed = 5 /\ hist[2].fed = 6
    /\ Len(hist[1].out) = 64 /\ Len(hist[2].out) = 64
    /\ obj.block_counter[1] = Add(pre.block_counter[1], FromInt(2))


\* The response r is a READ_OK response, and bit 0 of its status word (the
\* low bit of the last of its four data bytes) is set / clear.
ReadySet(r) == r[1] = SOR /\ r[2] = READ_OK /\ r[8] % 2 = 1

ReadyClear(r) == r[1] = SOR /\ r[2] = READ_OK /\ r[8] % 2 = 0

\* C26: a ready wait (wait_ready, tc_wait_ready) that has read a status
\* response whose ready bit is clear is still polling, and one that has
\* returned read, last, a status response whose ready bit is set.
C26_WaitsForReadyBit ==
    (last.op \in {"wait_ready", "tc_wait_ready"} /\ calls > 0) =>
        /\ ReadyClear(produced[calls]) => phase = "waiting"
        /\ (phase = "idle" /\ last.exc = "none") => ReadySet(produced[calls])

\* The module's communication error: class Commerror, class TcError.
CommErrorOf(m) == IF m.name = "trng_extract" THEN "Commerror" ELSE "TcError"

\* The response length of a response code.
LengthOf(code) ==
    CASE code = READ_OK -> 9
      [] code = WRITE_OK -> 5
      [] code = RESET_OK -> 3
      [] code = ERROR -> 4
      [] code = UNKNOWN -> 4
      [] OTHER -> 0

\* C27: get_resp, on the bytes the device has pending, returns the first
\* 9 / 5 / 3 / 4 / 4 of them (READ_OK / WRITE_OK / RESET_OK / ERROR /
\* UNKNOWN in byte 1, SOR in byte 0) and leaves the rest pending; with
\* another byte 0 it raises the module's communication error having read
\* one byte, with another byte 1 it raises it having read two, and it
\* returns no buffer then.
C27_GetRespConsumesOrRaises ==
    last.op = "get_resp" =>
        IF pre[1] # SOR
        THEN /\ last.exc = CommErrorOf(cfg.module)
             /\ last.out = << >>
             /\ obj = SubSeq(pre, 2, Len(pre))
        ELSE IF LengthOf(pre[2]) = 0
        THEN /\ last.exc = CommErrorOf(cfg.module)
             /\ last.out = << >>
             /\ obj = SubSeq(pre, 3, Len(pre))
        ELSE /\ last.exc = "none"
             /\ last.out = SubSeq(pre, 1, LengthOf(pre[2]))
             /\ last.out[1] = SOR
             /\ obj = SubSeq(pre, LengthOf(pre[2]) + 1, Len(pre))

\* C28: send_write_cmd writes the 9 bytes 0x55, 0x11, prefix/addr0,
\* addr/addr1, four data bytes and 0xaa to the device, the data bytes being
\* the 32 bit data most significant byte first; send_read_cmd writes the 5
\* bytes 0x55, 0x10, prefix/addr0, addr/addr1, 0xaa.
C28_CommandFraming ==
    /\ last.op = "send_write_cmd" =>
           /\ Len(hist) = 9
           /\ hist[1] = 85 /\ hist[2] = 17
           /\ hist[3] = cfg.prefix /\ hist[4] = cfg.addr
           /\ \A k \in 5..8 : hist[k] \in 0..255
           /\ W(hist[5] * 256 + hist[6], hist[7] * 256 + hist[8]) = last.data
           /\ hist[9] = 170
    /\ last.op = "send_read_cmd" =>
           hist = <<85, 16, cfg.prefix, cfg.addr, 170>>

=============================================================================
